---- MODULE Spec2Model ----
(***************************************************************************)
(* simple_nostr_client: the client handle (WsClient), its builder, the     *)
(* background session loop (listen) and the two mpsc queues between them.  *)
(* Every handle h has its own loop thread; the loop is modelled one        *)
(* channel/transport operation per step, so that caller operations         *)
(* interleave with it as the two threads do.                               *)
(***************************************************************************)
EXTENDS Integers, Sequences, FiniteSets, TLC

\* ---------------------------------------------------------------- bounds
MaxTime == 17
MaxSend == 2
MaxFrames == 2
MaxPings == 257

\* ------------------------------------------------------ program constants
PING_INTERVAL == 5
NonceModulus == 256

\* ------------------------------------------------------------ value space
Handles == {"A", "B"}
Solo == {"A"}
NoKey == "-"
Stranger == "X"
Plaintexts == {"hello"}
Backs == {2}
PingPayloads == {7}

NoContent == [enc |-> FALSE, p |-> "", from |-> NoKey, to |-> NoKey]
Plain(p) == [enc |-> FALSE, p |-> p, from |-> NoKey, to |-> NoKey]
Cipher(p, from, to) == [enc |-> TRUE, p |-> p, from |-> from, to |-> to]

KindDM == "EncryptedDirectMessage"
KindText == "TextNote"
KindPool == "Custom2022"

NoEvent == [kind |-> "none", content |-> NoContent, pubkey |-> NoKey, tag |-> NoKey, id |-> 0]
NoFilter == [kind |-> "none", pubkey |-> NoKey, since |-> 0]
MkEvent(kind, content, pubkey, tag, id) ==
    [kind |-> kind, content |-> content, pubkey |-> pubkey, tag |-> tag, id |-> id]

\* nip04::encrypt / nip04::decrypt with the ECDH shared secret of the two
\* parties: a ciphertext opens only under the pair of keys that made it.
\* ok is the outcome of the library call (it returns a Result).
Encrypt(sk, receiver, p, ok) ==
    IF ok THEN [ok |-> TRUE, val |-> Cipher(p, sk, receiver)]
    ELSE [ok |-> FALSE, val |-> NoContent]

Decrypt(sk, event_pubkey, content) ==
    IF content.enc /\ {content.from, content.to} = {sk, event_pubkey}
    THEN [ok |-> TRUE, val |-> Plain(content.p)]
    ELSE [ok |-> FALSE, val |-> NoContent]

\* ClientMessage::event(..).as_json() and ClientMessage::req(..).as_json()
EventJson(ev) == [m |-> "EVENT", ev |-> ev, filter |-> NoFilter]
ReqJson(id, filter) == [m |-> "REQ", ev |-> [NoEvent EXCEPT !.id = id], filter |-> filter]

\* text a relay may send: wf says whether RawRelayMessage::from_json and
\* RelayMessage::try_from accept it
RelayJson(wf, m, ev) == [wf |-> wf, m |-> m, ev |-> ev]

\* SendMsg / RecvMsg
SendMsgMsg(data) == [t |-> "Msg", data |-> data]
SendMsgStop == [t |-> "Stop", data |-> EventJson(NoEvent)]
RecvMsgMsg(data, seq) == [t |-> "Msg", data |-> data, seq |-> seq]
RecvMsgClose == [t |-> "Close", data |-> RelayJson("ok", "NONE", NoEvent), seq |-> 0]

\* OwnedMessage frames on the socket, relay -> client
Frame(type, data, nonce, seq) == [type |-> type, data |-> data, nonce |-> nonce, seq |-> seq]
TextFrame(data, seq) == Frame("Text", data, 0, seq)
CtlFrame(type, nonce) == Frame(type, RelayJson("ok", "NONE", NoEvent), nonce, 0)

\* texts an arbitrary peer can send to handle h: plain events; and direct
\* messages h can and cannot open, other relay messages, texts the codec rejects
EventTexts(h) ==
    { RelayJson("ok", "EVENT", MkEvent(KindText, Plain(p), Stranger, NoKey, 1)) : p \in Plaintexts }
OtherTexts(h) ==
    { RelayJson("ok", "EVENT", MkEvent(KindDM, Cipher(p, Stranger, h), Stranger, h, 1)) : p \in Plaintexts }
    \cup { RelayJson("ok", "EVENT", MkEvent(KindDM, Cipher(p, Stranger, Stranger), Stranger, h, 1)) : p \in Plaintexts }
    \cup { RelayJson("ok", "AUTH", NoEvent), RelayJson("ok", "NOTICE", NoEvent),
           RelayJson("badjson", "NONE", NoEvent), RelayJson("badshape", "NONE", NoEvent) }
ControlFrames ==
    { CtlFrame("Binary", 0), CtlFrame("Close", 0), CtlFrame("Pong", 0), CtlFrame("Bad", 0) }
    \cup { CtlFrame("Ping", n) : n \in PingPayloads }
\* the frames of the lifecycle specifications, and those of the router's
CoreFrames(h, seq) == { TextFrame(d, seq) : d \in EventTexts(h) } \cup ControlFrames
AllTextFrames(h, seq) == { TextFrame(d, seq) : d \in EventTexts(h) \cup OtherTexts(h) }

\* WebSocketError values recv_message can return
FrameErrors == {"ProtocolError", "DataFrameError", "Utf8Error"}
IdleErrors == {"NoDataAvailable", "IoWouldBlock", "IoOther", "Other"}

\* ------------------------------------------------------------------ state
VARIABLES
    now,          \* SystemTime::now()
    hstate,       \* per handle: "unbuilt" | "live" | "dropped"
    connected,    \* WsClient.connected
    outq,         \* channel sender -> ws_receiver (SendMsg)
    inq,          \* channel ws_sender -> receiver (RecvMsg)
    loop,         \* thread of listen(): "NotStarted" | "Running" | "Terminated"
    exit,         \* how listen() ended: "none" | "Stop" | "Disconnected" | "Watchdog" | "Panic"
    pc,           \* position of the thread inside one iteration
    last_ping, last_pong, ping_nonce,
    wire,         \* frames in the socket, not yet read by recv_message
    uplink,       \* text frames written to the socket that the relay has yet to read
    sent,         \* ids of the text frames handed to client.send_message, in order
    pingLog,      \* nonces of the pings handed to the socket (line 386 drops the result)
    recvLog,      \* seq of the text frames recv_message returned, in order
    consumed,     \* seq of the RecvMsg::Msg taken by try_receive, in order
    ret,          \* the caller operation that returned in the step to this state, and its result
    nextId,       \* messages built by the handle so far
    nInj,         \* frames put on the socket so far
    stopsEnq,     \* SendMsg::Stop accepted by the outbound channel so far
    loopsStarted, \* threads spawned for the handle so far
    closedRet,    \* try_receive calls that returned ConnectionClosed so far
    stopped,      \* stop() has been called on the handle
    subs,         \* relay: subscriptions, in the order they were opened
    store         \* relay: events it holds, in the order they came

flags == <<hstate, connected>>
queues == <<outq, inq>>
thread == <<loop, exit, pc>>
timers == <<last_ping, last_pong, ping_nonce>>
socket == <<wire, uplink>>
sendLogs == <<sent, pingLog>>
recvLogs == <<recvLog, consumed>>
counters == <<nextId, nInj, stopsEnq, loopsStarted, closedRet, stopped>>
relayVars == <<subs, store>>

vars == <<now, flags, queues, thread, timers, socket, sendLogs, recvLogs, ret, counters,
          relayVars>>

Ret(h, op, res, ev) == [h |-> h, op |-> op, res |-> res, ev |-> ev]
NoRet == Ret(NoKey, "none", "none", NoEvent)

Init ==
    /\ now = 0
    /\ hstate = [h \in Handles |-> "unbuilt"]
    /\ connected = [h \in Handles |-> FALSE]
    /\ outq = [h \in Handles |-> <<>>]
    /\ inq = [h \in Handles |-> <<>>]
    /\ loop = [h \in Handles |-> "NotStarted"]
    /\ exit = [h \in Handles |-> "none"]
    /\ pc = [h \in Handles |-> "dequeue"]
    /\ last_ping = [h \in Handles |-> 0]
    /\ last_pong = [h \in Handles |-> 0]
    /\ ping_nonce = [h \in Handles |-> 0]
    /\ wire = [h \in Handles |-> <<>>]
    /\ uplink = [h \in Handles |-> <<>>]
    /\ sent = [h \in Handles |-> <<>>]
    /\ pingLog = [h \in Handles |-> <<>>]
    /\ recvLog = [h \in Handles |-> <<>>]
    /\ consumed = [h \in Handles |-> <<>>]
    /\ ret = NoRet
    /\ nextId = [h \in Handles |-> 0]
    /\ nInj = [h \in Handles |-> 0]
    /\ stopsEnq = [h \in Handles |-> 0]
    /\ loopsStarted = [h \in Handles |-> 0]
    /\ closedRet = [h \in Handles |-> 0]
    /\ stopped = [h \in Handles |-> FALSE]
    /\ subs = <<>>
    /\ store = <<>>

\* ------------------------------------------------------- channel endpoints
\* `sender`/`receiver` live in the WsClient, `ws_receiver`/`ws_sender` on the
\* stack of listen(): an endpoint is open as long as its owner is.
OutTxOpen(h) == hstate[h] = "live"
OutRxOpen(h) == loop[h] = "Running"
InTxOpen(h) == loop[h] = "Running"
InRxOpen(h) == hstate[h] = "live"

\* ------------------------------------------------------------- the builder
\* WsClient::listen, called on the freshly built struct: client, ws_sender and
\* ws_receiver are Some, so the thread is spawned (it initialises last_ping,
\* last_pong and ping_nonce) and connected becomes true.
Listen(h) ==
    /\ loop' = [loop EXCEPT ![h] = "Running"]
    /\ loopsStarted' = [loopsStarted EXCEPT ![h] = @ + 1]
    /\ last_ping' = [last_ping EXCEPT ![h] = now]
    /\ last_pong' = [last_pong EXCEPT ![h] = now]
    /\ ping_nonce' = [ping_nonce EXCEPT ![h] = 0]
    /\ pc' = [pc EXCEPT ![h] = "dequeue"]
    /\ connected' = [connected EXCEPT ![h] = TRUE]

\* the outcomes ClientBuilder::new(&url)?.connect(None)? can have
Handshakes == {"ok", "Parse", "WebSocket"}

\* connect that goes on when set_nonblocking fails
ConnectResultAnyMode(relay, keys, handshake, nonblocking) ==
    IF ~(relay /\ keys) THEN "ArgMissing"
    ELSE IF handshake # "ok" THEN handshake
    ELSE "Ok"

\* what WsClientBuilder::connect returns (lines 111-119): the builder's two
\* options, then the handshake, then the switch to non-blocking mode
ConnectResult(relay, keys, handshake, nonblocking) ==
    IF ~(relay /\ keys) THEN "ArgMissing"
    ELSE IF handshake # "ok" THEN handshake
    ELSE IF ~nonblocking THEN "NonBlocking"
    ELSE "Ok"

\* WsClientBuilder::connect
Connect(h) ==
    /\ hstate[h] = "unbuilt"
    /\ \E relay \in BOOLEAN, keys \in BOOLEAN, nonblocking \in BOOLEAN,
          handshake \in Handshakes :
         LET err == ConnectResult(relay, keys, handshake, nonblocking)
         IN  /\ ret' = Ret(h, "connect", err, NoEvent)
             /\ IF err = "Ok"
                THEN /\ hstate' = [hstate EXCEPT ![h] = "live"]
                     /\ Listen(h)
                ELSE UNCHANGED <<hstate, loop, loopsStarted, last_ping, last_pong,
                                 ping_nonce, pc, connected>>
    /\ UNCHANGED <<now, queues, exit, socket, sendLogs, recvLogs, nextId, nInj,
                   stopsEnq, closedRet, stopped, relayVars>>

\* --------------------------------------------------------- the client handle
\* WsClient::is_connected
IsConnected(h) == connected[h]

\* send_raw that ignores the result of sender.send
SendRawIgnoresFailure(h, data) ==
    IF ~IsConnected(h) THEN [res |-> "NotConnected", q |-> outq[h]]
    ELSE IF ~OutRxOpen(h) THEN [res |-> "Ok", q |-> outq[h]]
    ELSE [res |-> "Ok", q |-> Append(outq[h], SendMsgMsg(data))]

\* WsClient::send_raw: what it returns and the outbound queue it leaves
SendRaw(h, data) ==
    IF ~IsConnected(h) THEN [res |-> "NotConnected", q |-> outq[h]]
    ELSE IF ~OutRxOpen(h) THEN [res |-> "Send", q |-> outq[h]]
    ELSE [res |-> "Ok", q |-> Append(outq[h], SendMsgMsg(data))]

\* the frame of a caller operation that builds and sends one message
Send(h, op, r, built) ==
    /\ ret' = Ret(h, op, r.res, NoEvent)
    /\ outq' = [outq EXCEPT ![h] = r.q]
    /\ nextId' = [nextId EXCEPT ![h] = IF built THEN @ + 1 ELSE @]
    /\ UNCHANGED <<now, flags, inq, thread, timers, socket, sendLogs, recvLogs, nInj,
                   stopsEnq, loopsStarted, closedRet, stopped, relayVars>>

CanBuild(h) == IsConnected(h) => nextId[h] < MaxSend

\* WsClient::subscribe_dm
SubscribeDm(h) ==
    /\ hstate[h] = "live"
    /\ CanBuild(h)
    /\ IF ~IsConnected(h)
       THEN Send(h, "subscribe_dm", [res |-> "NotConnected", q |-> outq[h]], FALSE)
       ELSE LET filter == [kind |-> KindDM, pubkey |-> h, since |-> 0]
            IN  Send(h, "subscribe_dm", SendRaw(h, ReqJson(nextId[h] + 1, filter)), TRUE)

\* WsClient::subscribe_pool; `since` is kept as the offset from Timestamp::now()
SubscribePool(h) ==
    /\ hstate[h] = "live"
    /\ CanBuild(h)
    /\ \E back \in Backs :
         IF ~IsConnected(h)
         THEN Send(h, "subscribe_pool", [res |-> "NotConnected", q |-> outq[h]], FALSE)
         ELSE LET filter == [kind |-> KindPool, pubkey |-> NoKey, since |-> back]
              IN  Send(h, "subscribe_pool", SendRaw(h, ReqJson(nextId[h] + 1, filter)), TRUE)

\* WsClient::post_event on a builder of the given kind, content and tag;
\* signOk is the outcome of EventBuilder::to_event
PostEventRes(h, kind, content, tag, signOk) ==
    IF ~IsConnected(h) THEN [res |-> "NotConnected", q |-> outq[h], built |-> FALSE]
    ELSE IF ~signOk THEN [res |-> "SignEvent", q |-> outq[h], built |-> FALSE]
    ELSE LET r == SendRaw(h, EventJson(MkEvent(kind, content, h, tag, nextId[h] + 1)))
         IN  [res |-> r.res, q |-> r.q, built |-> TRUE]

PostEvent(h, outcomes) ==
    /\ hstate[h] = "live"
    /\ CanBuild(h)
    /\ \E p \in Plaintexts, signOk \in outcomes :
         LET r == PostEventRes(h, KindText, Plain(p), NoKey, signOk)
         IN  Send(h, "post_event", r, r.built)

\* WsClient::send_dm: encrypt first, then post_event
SendDmRes(h, p, receiver, encOk, signOk) ==
    LET c == Encrypt(h, receiver, p, encOk)
    IN  IF ~c.ok THEN [res |-> "Nip04Encrypt", q |-> outq[h], built |-> FALSE]
        ELSE PostEventRes(h, KindDM, c.val, receiver, signOk)

SendDm(h, receivers, outcomes) ==
    /\ hstate[h] = "live"
    /\ CanBuild(h)
    /\ \E p \in Plaintexts, receiver \in receivers, encOk \in outcomes, signOk \in outcomes :
         LET r == SendDmRes(h, p, receiver, encOk, signOk)
         IN  Send(h, "send_dm", r, r.built)

\* try_receive_raw without its is_connected()? guard
TryReceiveRawUnguarded(h) ==
    IF inq[h] # <<>>
    THEN [res |-> "Some", msg |-> Head(inq[h]), q |-> Tail(inq[h]),
          conn |-> connected[h] /\ Head(inq[h]).t # "Close"]
    ELSE IF InTxOpen(h)
    THEN [res |-> "None", msg |-> RecvMsgClose, q |-> inq[h], conn |-> connected[h]]
    ELSE [res |-> "Receive", msg |-> RecvMsgClose, q |-> inq[h], conn |-> connected[h]]

\* try_receive_raw that does not clear the flag when it takes a Close
TryReceiveRawKeepsFlag(h) ==
    IF ~IsConnected(h)
    THEN [res |-> "NotConnected", msg |-> RecvMsgClose, q |-> inq[h], conn |-> connected[h]]
    ELSE IF inq[h] # <<>>
    THEN [res |-> "Some", msg |-> Head(inq[h]), q |-> Tail(inq[h]), conn |-> connected[h]]
    ELSE IF InTxOpen(h)
    THEN [res |-> "None", msg |-> RecvMsgClose, q |-> inq[h], conn |-> connected[h]]
    ELSE [res |-> "Receive", msg |-> RecvMsgClose, q |-> inq[h], conn |-> connected[h]]

\* try_receive_raw that maps every try_recv error to Error::Receive
TryReceiveRawEmptyIsError(h) ==
    IF ~IsConnected(h)
    THEN [res |-> "NotConnected", msg |-> RecvMsgClose, q |-> inq[h], conn |-> connected[h]]
    ELSE IF inq[h] # <<>>
    THEN [res |-> "Some", msg |-> Head(inq[h]), q |-> Tail(inq[h]),
          conn |-> Head(inq[h]).t # "Close"]
    ELSE [res |-> "Receive", msg |-> RecvMsgClose, q |-> inq[h], conn |-> connected[h]]

\* WsClient::try_receive_raw: the result, the message taken, the inbound queue
\* and the connected flag it leaves
TryReceiveRaw(h) ==
    IF ~IsConnected(h)
    THEN [res |-> "NotConnected", msg |-> RecvMsgClose, q |-> inq[h], conn |-> connected[h]]
    ELSE IF inq[h] # <<>>
    THEN [res |-> "Some", msg |-> Head(inq[h]), q |-> Tail(inq[h]),
          conn |-> Head(inq[h]).t # "Close"]
    ELSE IF InTxOpen(h)
    THEN [res |-> "None", msg |-> RecvMsgClose, q |-> inq[h], conn |-> connected[h]]
    ELSE [res |-> "Receive", msg |-> RecvMsgClose, q |-> inq[h], conn |-> connected[h]]

\* decrypt_dm that checks the content opens but hands the event back as it came
DecryptDmKeepsCipher(h, event) ==
    IF event.kind # KindDM THEN [res |-> "NotNip04", ev |-> NoEvent]
    ELSE LET d == Decrypt(h, event.pubkey, event.content)
         IN  IF d.ok THEN [res |-> "Ok", ev |-> event]
             ELSE [res |-> "Nip04Decrypt", ev |-> NoEvent]

\* WsClient::decrypt_dm
DecryptDm(h, event) ==
    IF event.kind # KindDM THEN [res |-> "NotNip04", ev |-> NoEvent]
    ELSE LET d == Decrypt(h, event.pubkey, event.content)
         IN  IF d.ok THEN [res |-> "Ok", ev |-> [event EXCEPT !.content = d.val]]
             ELSE [res |-> "Nip04Decrypt", ev |-> NoEvent]

\* a router that answers Ok(None) to a text it cannot decode
RouteSwallowsErrors(h, data) ==
    IF data.wf # "ok" THEN [res |-> "Ok", ev |-> NoEvent]
    ELSE IF data.m = "EVENT"
    THEN IF data.ev.kind = KindDM THEN DecryptDm(h, data.ev)
         ELSE [res |-> "Ok", ev |-> data.ev]
    ELSE [res |-> "Ok", ev |-> NoEvent]

\* the match of try_receive on the text of a RecvMsg::Msg
Route(h, data) ==
    IF data.wf = "badjson" THEN [res |-> "RawRelayMessage", ev |-> NoEvent]
    ELSE IF data.wf = "badshape" THEN [res |-> "RelayMessage", ev |-> NoEvent]
    ELSE IF data.m = "EVENT"
    THEN IF data.ev.kind = KindDM THEN DecryptDm(h, data.ev)
         ELSE [res |-> "Ok", ev |-> data.ev]
    ELSE [res |-> "Ok", ev |-> NoEvent]

\* WsClient::try_receive
TryReceive(h) ==
    /\ hstate[h] = "live"
    /\ LET r == TryReceiveRaw(h)
           out == IF r.res = "Some"
                  THEN IF r.msg.t = "Close" THEN [res |-> "ConnectionClosed", ev |-> NoEvent]
                       ELSE Route(h, r.msg.data)
                  ELSE IF r.res = "None" THEN [res |-> "Ok", ev |-> NoEvent]
                  ELSE [res |-> r.res, ev |-> NoEvent]
       IN  /\ ret' = Ret(h, "try_receive", out.res, out.ev)
           /\ inq' = [inq EXCEPT ![h] = r.q]
           /\ connected' = [connected EXCEPT ![h] = r.conn]
           /\ consumed' = [consumed EXCEPT ![h] =
                  IF r.res = "Some" /\ r.msg.t = "Msg" THEN Append(@, r.msg.seq) ELSE @]
           /\ closedRet' = [closedRet EXCEPT ![h] =
                  IF out.res = "ConnectionClosed" THEN @ + 1 ELSE @]
    /\ UNCHANGED <<now, hstate, outq, thread, timers, socket, sendLogs, recvLog, nextId,
                   nInj, stopsEnq, loopsStarted, stopped, relayVars>>

\* stop() that flips the flag instead of clearing it
StopBodyToggles(h) ==
    /\ connected' = [connected EXCEPT ![h] = ~@]
    /\ IF connected[h] /\ OutRxOpen(h)
       THEN /\ outq' = [outq EXCEPT ![h] = Append(@, SendMsgStop)]
            /\ stopsEnq' = [stopsEnq EXCEPT ![h] = @ + 1]
       ELSE UNCHANGED <<outq, stopsEnq>>

\* stop() without its `if self.connected`
StopBodyUnguarded(h) ==
    /\ connected' = [connected EXCEPT ![h] = FALSE]
    /\ IF OutRxOpen(h)
       THEN /\ outq' = [outq EXCEPT ![h] = Append(@, SendMsgStop)]
            /\ stopsEnq' = [stopsEnq EXCEPT ![h] = @ + 1]
       ELSE UNCHANGED <<outq, stopsEnq>>

\* the body of WsClient::stop; sender.send fails when ws_receiver is gone
StopBody(h) ==
    IF connected[h]
    THEN /\ connected' = [connected EXCEPT ![h] = FALSE]
         /\ IF OutRxOpen(h)
            THEN /\ outq' = [outq EXCEPT ![h] = Append(@, SendMsgStop)]
                 /\ stopsEnq' = [stopsEnq EXCEPT ![h] = @ + 1]
            ELSE UNCHANGED <<outq, stopsEnq>>
    ELSE UNCHANGED <<connected, outq, stopsEnq>>

\* WsClient::stop
Stop(h) ==
    /\ hstate[h] = "live"
    /\ StopBody(h)
    /\ ret' = Ret(h, "stop", "Ok", NoEvent)
    /\ stopped' = [stopped EXCEPT ![h] = TRUE]
    /\ UNCHANGED <<now, hstate, inq, thread, timers, socket, sendLogs, recvLogs, nextId,
                   nInj, loopsStarted, closedRet, relayVars>>

\* impl Drop for WsClient: stop(), then sender and receiver are dropped and
\* with the receiver whatever the inbound queue still held
Drop(h) ==
    /\ hstate[h] = "live"
    /\ StopBody(h)
    /\ hstate' = [hstate EXCEPT ![h] = "dropped"]
    /\ inq' = [inq EXCEPT ![h] = <<>>]
    /\ ret' = Ret(h, "drop", "Ok", NoEvent)
    /\ UNCHANGED <<now, thread, timers, socket, sendLogs, recvLogs, nextId, nInj,
                   loopsStarted, closedRet, stopped, relayVars>>

\* ---------------------------------------------------------- the session loop
\* listen() returns (or unwinds): ws_receiver, ws_sender and the client are
\* dropped, and with them what the outbound queue and the socket still held
Terminate(h, why) ==
    /\ loop' = [loop EXCEPT ![h] = "Terminated"]
    /\ exit' = [exit EXCEPT ![h] = why]
    /\ pc' = [pc EXCEPT ![h] = "dequeue"]
    /\ outq' = [outq EXCEPT ![h] = <<>>]
    /\ wire' = [wire EXCEPT ![h] = <<>>]

\* a queue that hands out its newest message first
DequeueNewest(q) == [msg |-> q[Len(q)], rest |-> SubSeq(q, 1, Len(q) - 1)]

\* receiver.try_recv() on a non-empty queue: the message taken and the rest
Dequeue(q) == [msg |-> Head(q), rest |-> Tail(q)]

\* a send that puts the message at the front of the queue
EnqueueFront(h, m) == IF InRxOpen(h) THEN <<m>> \o inq[h] ELSE inq[h]

\* sender.send(m) of the loop: it is lost when the handle's receiver is gone
Enqueue(h, m) == IF InRxOpen(h) THEN Append(inq[h], m) ELSE inq[h]

\* an outbound dequeue that keeps running when the handle's sender is gone
LoopDequeueIgnoresDisconnect(h, outcomes, carried) ==
    /\ loop[h] = "Running"
    /\ pc[h] = "dequeue"
    /\ IF outq[h] # <<>>
       THEN LET d == Dequeue(outq[h])
            IN  IF d.msg.t = "Msg"
                THEN /\ sent' = [sent EXCEPT ![h] = Append(@, d.msg.data.ev.id)]
                     /\ \E ok \in outcomes :
                          uplink' = [uplink EXCEPT ![h] =
                              IF carried /\ ok THEN Append(@, d.msg.data) ELSE @]
                     /\ outq' = [outq EXCEPT ![h] = d.rest]
                     /\ pc' = [pc EXCEPT ![h] = "recv"]
                     /\ UNCHANGED <<loop, exit, wire>>
                ELSE /\ Terminate(h, "Stop")
                     /\ UNCHANGED <<sent, uplink>>
       ELSE /\ pc' = [pc EXCEPT ![h] = "recv"]
            /\ UNCHANGED <<loop, exit, wire, outq, sent, uplink>>
    /\ ret' = NoRet
    /\ UNCHANGED <<now, flags, inq, timers, pingLog, recvLogs, counters, relayVars>>

\* an outbound dequeue that discards SendMsg::Stop and goes on
LoopDequeueIgnoresStop(h, outcomes, carried) ==
    /\ loop[h] = "Running"
    /\ pc[h] = "dequeue"
    /\ IF outq[h] # <<>>
       THEN LET d == Dequeue(outq[h])
            IN  /\ sent' = [sent EXCEPT ![h] =
                       IF d.msg.t = "Msg" THEN Append(@, d.msg.data.ev.id) ELSE @]
                /\ \E ok \in outcomes :
                     uplink' = [uplink EXCEPT ![h] =
                         IF d.msg.t = "Msg" /\ carried /\ ok THEN Append(@, d.msg.data) ELSE @]
                /\ outq' = [outq EXCEPT ![h] = d.rest]
                /\ pc' = [pc EXCEPT ![h] = "recv"]
                /\ UNCHANGED <<loop, exit, wire>>
       ELSE IF OutTxOpen(h)
       THEN /\ pc' = [pc EXCEPT ![h] = "recv"]
            /\ UNCHANGED <<loop, exit, wire, outq, sent, uplink>>
       ELSE /\ Terminate(h, "Disconnected")
            /\ UNCHANGED <<sent, uplink>>
    /\ ret' = NoRet
    /\ UNCHANGED <<now, flags, inq, timers, pingLog, recvLogs, counters, relayVars>>

\* an outbound dequeue that returns from listen() when send_message fails
LoopDequeueFailStops(h, outcomes, carried) ==
    /\ loop[h] = "Running"
    /\ pc[h] = "dequeue"
    /\ IF outq[h] # <<>>
       THEN LET d == Dequeue(outq[h])
            IN  IF d.msg.t = "Msg"
                THEN /\ sent' = [sent EXCEPT ![h] = Append(@, d.msg.data.ev.id)]
                     /\ \E ok \in outcomes :
                          /\ uplink' = [uplink EXCEPT ![h] =
                                 IF carried /\ ok THEN Append(@, d.msg.data) ELSE @]
                          /\ IF ok
                             THEN /\ outq' = [outq EXCEPT ![h] = d.rest]
                                  /\ pc' = [pc EXCEPT ![h] = "recv"]
                                  /\ UNCHANGED <<loop, exit, wire>>
                             ELSE Terminate(h, "SendFailed")
                ELSE /\ Terminate(h, "Stop")
                     /\ UNCHANGED <<sent, uplink>>
       ELSE IF OutTxOpen(h)
       THEN /\ pc' = [pc EXCEPT ![h] = "recv"]
            /\ UNCHANGED <<loop, exit, wire, outq, sent, uplink>>
       ELSE /\ Terminate(h, "Disconnected")
            /\ UNCHANGED <<sent, uplink>>
    /\ ret' = NoRet
    /\ UNCHANGED <<now, flags, inq, timers, pingLog, recvLogs, counters, relayVars>>

\* listen(), lines 316-329: one try_recv on the outbound queue. (The local
\* `wait` only decides whether the iteration ends with a 50 us sleep; the time
\* a session spends between iterations is Tick's.) outcomes are the results client.send_message can have; carried says
\* whether a relay that reads the frame is part of the specification.
LoopDequeue(h, outcomes, carried) ==
    /\ loop[h] = "Running"
    /\ pc[h] = "dequeue"
    /\ IF outq[h] # <<>>
       THEN LET d == Dequeue(outq[h])
            IN  IF d.msg.t = "Msg"
                THEN /\ sent' = [sent EXCEPT ![h] = Append(@, d.msg.data.ev.id)]
                     /\ \E ok \in outcomes :
                          uplink' = [uplink EXCEPT ![h] =
                              IF carried /\ ok THEN Append(@, d.msg.data) ELSE @]
                     /\ outq' = [outq EXCEPT ![h] = d.rest]
                     /\ pc' = [pc EXCEPT ![h] = "recv"]
                     /\ UNCHANGED <<loop, exit, wire>>
                ELSE /\ Terminate(h, "Stop")
                     /\ UNCHANGED <<sent, uplink>>
       ELSE IF OutTxOpen(h)
       THEN /\ pc' = [pc EXCEPT ![h] = "recv"]
            /\ UNCHANGED <<loop, exit, wire, outq, sent, uplink>>
       ELSE /\ Terminate(h, "Disconnected")
            /\ UNCHANGED <<sent, uplink>>
    /\ ret' = NoRet
    /\ UNCHANGED <<now, flags, inq, timers, pingLog, recvLogs, counters, relayVars>>

\* listen(), lines 331-377: one client.recv_message(). A pong answering a ping
\* frame leaves nothing behind in the program (its result is discarded).
LoopRecv(h) ==
    /\ loop[h] = "Running"
    /\ pc[h] = "recv"
    /\ IF wire[h] = <<>>
       THEN /\ \E e \in IdleErrors : pc' = [pc EXCEPT ![h] = "ping"]
            /\ UNCHANGED <<loop, exit, outq, wire, inq, recvLog, last_pong>>
       ELSE LET f == Head(wire[h])
            IN  IF f.type = "Bad"
                THEN /\ \E e \in FrameErrors : pc' = [pc EXCEPT ![h] = "ping"]
                     /\ wire' = [wire EXCEPT ![h] = Tail(@)]
                     /\ UNCHANGED <<loop, exit, outq, inq, recvLog, last_pong>>
                ELSE IF f.type = "Close" /\ ~InRxOpen(h)
                THEN /\ Terminate(h, "Panic")
                     /\ UNCHANGED <<inq, recvLog, last_pong>>
                ELSE /\ pc' = [pc EXCEPT ![h] = "ping"]
                     /\ wire' = [wire EXCEPT ![h] = Tail(@)]
                     /\ inq' = [inq EXCEPT ![h] =
                            IF f.type = "Text" THEN Enqueue(h, RecvMsgMsg(f.data, f.seq))
                            ELSE IF f.type = "Close" THEN Enqueue(h, RecvMsgClose)
                            ELSE @]
                     /\ recvLog' = [recvLog EXCEPT ![h] =
                            IF f.type = "Text" THEN Append(@, f.seq) ELSE @]
                     /\ last_pong' = [last_pong EXCEPT ![h] =
                            IF f.type = "Pong" THEN now ELSE @]
                     /\ UNCHANGED <<loop, exit, outq>>
    /\ ret' = NoRet
    /\ UNCHANGED <<now, flags, last_ping, ping_nonce, uplink, sendLogs, consumed, counters,
                   relayVars>>

\* a ping whose nonce stops at 255 instead of wrapping
LoopPingSaturating(h) ==
    /\ loop[h] = "Running"
    /\ pc[h] = "ping"
    /\ IF now - last_ping[h] > PING_INTERVAL
       THEN /\ last_ping' = [last_ping EXCEPT ![h] = now]
            /\ ping_nonce' = [ping_nonce EXCEPT ![h] =
                   IF @ + 1 < NonceModulus THEN @ + 1 ELSE @]
            /\ pingLog' = [pingLog EXCEPT ![h] = Append(@,
                   IF ping_nonce[h] + 1 < NonceModulus THEN ping_nonce[h] + 1 ELSE ping_nonce[h])]
       ELSE UNCHANGED <<last_ping, ping_nonce, pingLog>>
    /\ pc' = [pc EXCEPT ![h] = "watchdog"]
    /\ ret' = NoRet
    /\ UNCHANGED <<now, flags, queues, loop, exit, last_pong, socket, sent,
                   recvLogs, counters, relayVars>>

\* listen(), lines 379-387: the liveness ping
PingDue(h) == now - last_ping[h] > PING_INTERVAL

LoopPing(h) ==
    /\ loop[h] = "Running"
    /\ pc[h] = "ping"
    /\ IF PingDue(h)
       THEN /\ last_ping' = [last_ping EXCEPT ![h] = now]
            /\ ping_nonce' = [ping_nonce EXCEPT ![h] = (@ + 1) % NonceModulus]
            /\ pingLog' = [pingLog EXCEPT ![h] = Append(@, (ping_nonce[h] + 1) % NonceModulus)]
       ELSE UNCHANGED <<last_ping, ping_nonce, pingLog>>
    /\ pc' = [pc EXCEPT ![h] = "watchdog"]
    /\ ret' = NoRet
    /\ UNCHANGED <<now, flags, queues, loop, exit, last_pong, socket, sent,
                   recvLogs, counters, relayVars>>

\* a watchdog that returns without sending RecvMsg::Close
LoopWatchdogSilent(h) ==
    /\ loop[h] = "Running"
    /\ pc[h] = "watchdog"
    /\ IF now - last_pong[h] > 3 * PING_INTERVAL
       THEN /\ Terminate(h, "Watchdog")
            /\ UNCHANGED inq
       ELSE /\ pc' = [pc EXCEPT ![h] = "dequeue"]
            /\ UNCHANGED <<inq, loop, exit, outq, wire>>
    /\ ret' = NoRet
    /\ UNCHANGED <<now, flags, timers, uplink, sendLogs, recvLogs, counters, relayVars>>

\* a watchdog condition that already holds at exactly three ping intervals
PongOverdueInclusive(h) == now - last_pong[h] >= 3 * PING_INTERVAL

\* listen(), lines 389-400: the pong watchdog, then the idle sleep
PongOverdue(h) == now - last_pong[h] > 3 * PING_INTERVAL

LoopWatchdog(h) ==
    /\ loop[h] = "Running"
    /\ pc[h] = "watchdog"
    /\ IF PongOverdue(h)
       THEN /\ inq' = [inq EXCEPT ![h] = Enqueue(h, RecvMsgClose)]
            /\ Terminate(h, "Watchdog")
       ELSE /\ pc' = [pc EXCEPT ![h] = "dequeue"]
            /\ UNCHANGED <<inq, loop, exit, outq, wire>>
    /\ ret' = NoRet
    /\ UNCHANGED <<now, flags, timers, uplink, sendLogs, recvLogs, counters, relayVars>>

\* ------------------------------------------------------------ environment
\* The peer writes one more frame to the socket of h. Only recv_message reads
\* the socket, one frame per iteration, so frames that arrived earlier or
\* several at a time are the same to the program as frames that arrive one by
\* one, each right before its read.
EnvFrame(h, frames) ==
    /\ loop[h] = "Running"
    /\ pc[h] = "recv"
    /\ nInj[h] < MaxFrames
    /\ wire[h] = <<>>
    /\ \E f \in frames : wire' = [wire EXCEPT ![h] = Append(@, f)]
    /\ nInj' = [nInj EXCEPT ![h] = @ + 1]
    /\ ret' = NoRet
    /\ UNCHANGED <<now, flags, queues, thread, timers, uplink, sendLogs, recvLogs, nextId,
                   stopsEnq, loopsStarted, closedRet, stopped, relayVars>>

\* d time units pass while a session sleeps between two iterations (the calls
\* inside an iteration do not block)
Tick(d) ==
    /\ now + d <= MaxTime
    /\ \E h \in Handles : loop[h] = "Running" /\ pc[h] = "dequeue"
    /\ now' = now + d
    /\ ret' = NoRet
    /\ UNCHANGED <<flags, queues, thread, timers, socket, sendLogs, recvLogs, counters,
                   relayVars>>

\* The peer answers the last ping of h, which it has not answered yet, with a
\* pong carrying the ping's payload.
PeerPong(h) ==
    /\ loop[h] = "Running"
    /\ pc[h] = "recv"
    /\ wire[h] = <<>>
    /\ last_pong[h] < last_ping[h]
    /\ wire' = [wire EXCEPT ![h] = <<CtlFrame("Pong", ping_nonce[h])>>]
    /\ nInj' = [nInj EXCEPT ![h] = @ + 1]
    /\ ret' = NoRet
    /\ UNCHANGED <<now, flags, queues, thread, timers, uplink, sendLogs, recvLogs, nextId,
                   stopsEnq, loopsStarted, closedRet, stopped, relayVars>>

\* A session with no ping due, whose peer has answered every ping, sleeps
\* through one more ping interval and a time unit.
Leap ==
    /\ \E h \in Handles : loop[h] = "Running" /\ pc[h] = "dequeue"
    /\ \A h \in Handles : loop[h] = "Running" =>
           /\ now - last_ping[h] <= PING_INTERVAL
           /\ last_pong[h] >= last_ping[h]
           /\ Len(pingLog[h]) < MaxPings
    /\ now' = now + PING_INTERVAL + 1
    /\ ret' = NoRet
    /\ UNCHANGED <<flags, queues, thread, timers, socket, sendLogs, recvLogs, counters,
                   relayVars>>

\* -------------------------------------------------------------- the relay
\* The relay the clients of tests/ are connected to. A filter matches an event
\* of its kind that carries its public key as a `p` tag, if it names one.
Matches(filter, ev) ==
    /\ filter.kind = ev.kind
    /\ filter.pubkey = NoKey \/ filter.pubkey = ev.tag

\* the text frames that carry the events evs, numbered from seq + 1
EventFrames(evs, seq) ==
    [i \in 1..Len(evs) |-> TextFrame(RelayJson("ok", "EVENT", evs[i]), seq + i)]

\* what the relay sends to client c when it reads d from client h: for a REQ
\* the stored events its filter matches, to h; for an EVENT that event, once
\* for every subscription of c it matches. (Acknowledgements, which
\* try_receive answers with Ok(None), are left out.)
Forwards(h, d, c) ==
    IF d.m = "REQ"
    THEN IF c = h THEN SelectSeq(store, LAMBDA ev : Matches(d.filter, ev)) ELSE <<>>
    ELSE [i \in 1..Len(SelectSeq(subs, LAMBDA s : s.c = c /\ Matches(s.filter, d.ev))) |-> d.ev]

\* the relay reads the next text frame client h wrote: a REQ opens a
\* subscription of h, an EVENT is stored; the matching events are written to
\* the sockets that are still read
RelayRead(h) ==
    /\ uplink[h] # <<>>
    /\ LET d == Head(uplink[h])
           out(c) == IF loop[c] = "Running" THEN Forwards(h, d, c) ELSE <<>>
       IN  /\ subs' = IF d.m = "REQ"
                      THEN Append(subs, [c |-> h, id |-> d.ev.id, filter |-> d.filter])
                      ELSE subs
           /\ store' = IF d.m = "EVENT" THEN Append(store, d.ev) ELSE store
           /\ wire' = [c \in Handles |-> wire[c] \o EventFrames(out(c), nInj[c])]
           /\ nInj' = [c \in Handles |-> nInj[c] + Len(out(c))]
    /\ uplink' = [uplink EXCEPT ![h] = Tail(@)]
    /\ ret' = NoRet
    /\ UNCHANGED <<now, flags, queues, thread, timers, sendLogs, recvLogs, nextId,
                   stopsEnq, loopsStarted, closedRet, stopped>>

\* ----------------------------------------------------------- specification
\* Spec observes time at the grain of the pong timeout: one tick is a silence
\* just long enough for the watchdog.
Silence == 3 * PING_INTERVAL + 1

Caller(h) ==
    \/ Connect(h)
    \/ SubscribeDm(h)
    \/ SubscribePool(h)
    \/ PostEvent(h, BOOLEAN)
    \/ SendDm(h, Handles \ {h}, BOOLEAN)
    \/ TryReceive(h)
    \/ Stop(h)
    \/ Drop(h)

Session(h) ==
    \/ LoopDequeue(h, BOOLEAN, FALSE)
    \/ LoopRecv(h)
    \/ LoopPing(h)
    \/ LoopWatchdog(h)

Next ==
    \/ \E h \in Solo : Caller(h)
    \/ \E h \in Solo : Session(h)
    \/ \E h \in Solo : EnvFrame(h, CoreFrames(h, nInj[h] + 1))
    \/ Tick(Silence)

Spec == Init /\ [][Next]_vars

\* The session thread is scheduled by the operating system: a loop that can
\* take a step is not held back forever.
SpecFair == Spec /\ WF_vars(\E h \in Solo : Session(h))

\* Two clients on one relay, as in tests/client.rs: the reader subscribes and
\* polls, the writer sends direct messages to it; both sessions stay up (no
\* silence, no stop), every frame a loop sends reaches the relay.
Reader == "A"
Writer == "B"

Link(h) ==
    \/ LoopDequeue(h, {TRUE}, TRUE)
    \/ LoopRecv(h)
    \/ LoopPing(h)
    \/ LoopWatchdog(h)

NextDM ==
    \/ \E h \in Handles : Connect(h)
    \/ SubscribeDm(Reader)
    \/ SendDm(Writer, {Reader}, {TRUE})
    \/ TryReceive(Reader)
    \/ \E h \in Handles : Link(h)
    \/ \E h \in Handles : RelayRead(h)

SpecDM ==
    /\ Init /\ [][NextDM]_vars
    /\ \A h \in Handles : WF_vars(Link(h)) /\ WF_vars(RelayRead(h))
    /\ WF_vars(TryReceive(Reader))

\* One client whose relay sends every kind of text: events, direct messages it
\* can and cannot open, other relay messages, texts the codec rejects.
NextRouter ==
    \/ \E h \in Solo : Connect(h)
    \/ \E h \in Solo : TryReceive(h)
    \/ \E h \in Solo : Session(h)
    \/ \E h \in Solo : EnvFrame(h, AllTextFrames(h, nInj[h] + 1))

SpecRouter == Init /\ [][NextRouter]_vars

\* One client on a transport whose sends can fail: a text frame that was sent
\* reaches the relay, one whose send failed does not.
Lossy(h) ==
    \/ LoopDequeue(h, BOOLEAN, TRUE)
    \/ LoopRecv(h)
    \/ LoopPing(h)
    \/ LoopWatchdog(h)

NextSend ==
    \/ \E h \in Solo : Connect(h)
    \/ \E h \in Solo : SubscribeDm(h)
    \/ \E h \in Solo : PostEvent(h, {TRUE})
    \/ \E h \in Solo : Stop(h)
    \/ \E h \in Solo : Drop(h)
    \/ \E h \in Solo : Lossy(h)
    \/ \E h \in Solo : RelayRead(h)
    \/ \E h \in Solo : EnvFrame(h, CoreFrames(h, nInj[h] + 1))
    \/ Tick(Silence)

SpecSend == Init /\ [][NextSend]_vars

\* One client and its peer with the clock at the grain of one time unit.
NextTime ==
    \/ \E h \in Solo : Connect(h)
    \/ \E h \in Solo : Session(h)
    \/ \E h \in Solo : EnvFrame(h, CoreFrames(h, nInj[h] + 1))
    \/ Tick(1)

SpecTime == Init /\ [][NextTime]_vars

\* One client kept alive by a peer that answers its pings, long enough for the
\* nonce to wrap: the clock moves by single units early on and then by leaps.
NextPing ==
    \/ \E h \in Solo : Connect(h)
    \/ \E h \in Solo : Session(h)
    \/ \E h \in Solo : PeerPong(h)
    \/ Tick(1)
    \/ Leap

SpecPing == Init /\ [][NextPing]_vars

\* ------------------------------------------------------------------ claims
ProtocolOps == {"post_event", "send_dm", "subscribe_dm", "subscribe_pool", "try_receive"}
Last(q) == q[Len(q)]
MsgSeqs(q) == [i \in 1..Len(SelectSeq(q, LAMBDA m : m.t = "Msg")) |->
                  SelectSeq(q, LAMBDA m : m.t = "Msg")[i].seq]
MsgIds(q) == [i \in 1..Len(SelectSeq(q, LAMBDA m : m.t = "Msg")) |->
                 SelectSeq(q, LAMBDA m : m.t = "Msg")[i].data.ev.id]
IsPrefix(s, t) == Len(s) <= Len(t) /\ \A i \in 1..Len(s) : s[i] = t[i]
\* everything the program itself holds (no observation variable)
program == <<now, flags, queues, thread, timers, socket>>

\* C1: after stop() every protocol operation returns NotConnected and nothing
\* is added to the outbound queue.
C1_AfterStopNotConnected ==
    /\ [](\A h \in Handles :
            (stopped[h] /\ ret.h = h /\ ret.op \in ProtocolOps) => ret.res = "NotConnected")
    /\ [][\A h \in Handles : stopped[h] => Len(outq'[h]) <= Len(outq[h])]_vars

\* C2: try_receive returns ConnectionClosed at most once; that call leaves
\* connected false, and every try_receive after it returns NotConnected,
\* whatever the inbound queue holds.
C2_ClosedOnce ==
    \A h \in Handles :
        /\ closedRet[h] <= 1
        /\ closedRet[h] = 1 => ~connected[h]
        /\ (closedRet[h] = 1 /\ ret.h = h /\ ret.op = "try_receive")
               => ret.res \in {"ConnectionClosed", "NotConnected"}
        /\ (closedRet[h] = 0 /\ ret.h = h /\ ret.op = "try_receive")
               => ret.res # "ConnectionClosed"

C2_Witness ==
    /\ closedRet["A"] = 1
    /\ ret = Ret("A", "try_receive", "NotConnected", NoEvent)
    /\ inq["A"] # <<>>

\* C3 as claimed: once the watchdog has fired, the next try_receive on the
\* handle returns ConnectionClosed (and NotConnected from then on).
C3_NextIsClosed ==
    \A h \in Handles :
        (exit[h] = "Watchdog" /\ ret.h = h /\ ret.op = "try_receive")
            => ret.res \in {"ConnectionClosed", "NotConnected"}

\* C3 as amended: once the watchdog has fired, Close is the last message of the
\* inbound queue of the still connected handle; each try_receive takes exactly
\* the head of the queue, the calls before the Close return what was queued
\* before it, the call that takes the Close returns ConnectionClosed and leaves
\* connected false, and the calls after it return NotConnected.
C3_ClosedAfterBacklog ==
    /\ [](\A h \in Handles : (exit[h] = "Watchdog" /\ hstate[h] = "live") =>
            /\ connected[h] => (inq[h] # <<>> /\ Last(inq[h]).t = "Close")
            /\ (ret.h = h /\ ret.op = "try_receive") =>
                 IF connected[h]
                 THEN ret.res \notin {"ConnectionClosed", "NotConnected", "Receive"}
                 ELSE ret.res \in {"ConnectionClosed", "NotConnected"})
    /\ [][\A h \in Handles :
            (exit[h] = "Watchdog" /\ connected[h] /\ ret'.h = h /\ ret'.op = "try_receive") =>
                /\ inq'[h] = Tail(inq[h])
                /\ (ret'.res = "ConnectionClosed") = (Head(inq[h]).t = "Close")
                /\ connected'[h] = (Head(inq[h]).t # "Close")]_vars

C3_Witness ==
    /\ exit["A"] = "Watchdog"
    /\ ret = Ret("A", "try_receive", "ConnectionClosed", NoEvent)
    /\ ~connected["A"]
    /\ consumed["A"] # <<>>

C5_OneWay ==
    /\ [](\A h \in Handles : loopsStarted[h] = IF hstate[h] = "unbuilt" THEN 0 ELSE 1)
    /\ [][\A h \in Handles :
            /\ (hstate[h] # "unbuilt" /\ ~connected[h]) => ~connected'[h]
            /\ loop[h] = "Terminated" => loop'[h] = "Terminated"]_vars

C5_Witness ==
    /\ hstate["A"] = "live" /\ ~connected["A"]
    /\ closedRet["A"] = 1 /\ stopped["A"]
    /\ ret = Ret("A", "try_receive", "NotConnected", NoEvent)

\* C6: at most one Stop is ever accepted by the outbound queue, over stop()
\* calls and the drop of the handle; stop() on a handle that is not connected
\* changes nothing in the program.
C6_StopIdempotent ==
    /\ [](\A h \in Handles : stopsEnq[h] <= 1)
    /\ [][\A h \in Handles :
            (ret'.h = h /\ ret'.op = "stop" /\ ~connected[h]) => UNCHANGED program]_vars

C6_Witness ==
    /\ stopsEnq["A"] = 1 /\ stopped["A"]
    /\ ret = Ret("A", "drop", "Ok", NoEvent)
    /\ loop["A"] = "Running"

\* C8: the text frames handed to the transport are the messages in the order
\* they were built and enqueued, none twice, and the loop takes at most one per
\* iteration (at its dequeue step).
C8_OutboundOrder ==
    /\ [](\A h \in Handles :
            /\ \A i \in 1..Len(sent[h]) : sent[h][i] = i
            /\ loop[h] = "Running" =>
                 sent[h] \o MsgIds(outq[h]) = [i \in 1..nextId[h] |-> i])
    /\ [][\A h \in Handles :
            sent'[h] # sent[h] =>
                /\ Len(sent'[h]) = Len(sent[h]) + 1
                /\ pc[h] = "dequeue" /\ pc'[h] = "recv"
                /\ Len(outq'[h]) = Len(outq[h]) - 1]_vars

C8_Witness == sent["A"] = <<1, 2>> /\ loop["A"] = "Running"

\* C9: the texts taken by successive try_receive calls are the text frames in
\* the order the loop received them, none twice, one message per call.
C9_InboundOrder ==
    /\ [](\A h \in Handles :
            /\ IsPrefix(consumed[h] \o MsgSeqs(inq[h]), recvLog[h])
            /\ hstate[h] = "live" => consumed[h] \o MsgSeqs(inq[h]) = recvLog[h]
            /\ \A i, j \in 1..Len(consumed[h]) : i < j => consumed[h][i] < consumed[h][j])
    /\ [][\A h \in Handles :
            (ret'.h = h /\ ret'.op = "try_receive") =>
                /\ Len(inq'[h]) >= Len(inq[h]) - 1
                /\ Len(consumed'[h]) <= Len(consumed[h]) + 1
                /\ consumed'[h] # consumed[h] =>
                     /\ inq'[h] = Tail(inq[h])
                     /\ consumed'[h] = Append(consumed[h], Head(inq[h]).seq)]_vars

C9_Witness == consumed["A"] = <<1, 2>>

\* C7: once the handle has been destroyed -- while connected, after stop(), or
\* after try_receive observed Close -- a fairly scheduled session loop
\* eventually is Terminated, and it stays Terminated.
C7_DropTerminatesLoop ==
    \A h \in Solo : (hstate[h] = "dropped") ~> [](loop[h] = "Terminated")

\* the handle was dropped after Close had been observed (no Stop was sent) and
\* the loop ended on the disconnected outbound queue
C7_Witness ==
    /\ hstate["A"] = "dropped" /\ closedRet["A"] = 1 /\ stopsEnq["A"] = 0
    /\ loop["A"] = "Terminated" /\ exit["A"] = "Disconnected"

\* C10: with the reader subscribed to direct messages, a direct message with
\* plaintext p that the writer then sends to the reader's key is eventually
\* returned by a try_receive of the reader as an EncryptedDirectMessage event
\* of the writer whose content is p; and no try_receive ever returns a
\* direct-message event whose content is still the ciphertext.
Delivered(i, p) ==
    ret = Ret(Reader, "try_receive", "Ok", MkEvent(KindDM, Plain(p), Writer, Reader, i))

C10_DmRoundTrip ==
    /\ [](\A h \in Handles :
            (ret.h = h /\ ret.op = "try_receive" /\ ret.ev.kind = KindDM) =>
                /\ ret.res = "Ok"
                /\ ~ret.ev.content.enc
                /\ \E k \in 1..Len(store) :
                       /\ store[k].tag = h
                       /\ store[k].content = Cipher(ret.ev.content.p, store[k].pubkey, h)
                       /\ ret.ev = [store[k] EXCEPT !.content = Plain(store[k].content.p)])
    /\ \A i \in 1..MaxSend, p \in Plaintexts :
            (/\ ret = Ret(Writer, "send_dm", "Ok", NoEvent)
             /\ nextId[Writer] = i
             /\ Last(outq[Writer]).data.ev.content = Cipher(p, Writer, Reader)
             /\ nextId[Reader] >= 1) ~> Delivered(i, p)

\* the reader has just been handed the writer's second message, decrypted
C10_Witness == Delivered(2, "hello") /\ nextId[Reader] >= 1 /\ Len(consumed[Reader]) >= 2

\* C11: a try_receive that takes a text the codec rejects returns the decode
\* error (RawRelayMessage or RelayMessage), takes that one message only and
\* leaves connected true and the loop as it was; a well-formed event queued
\* behind it is returned as it came by the try_receive that takes it.
C11_MalformedIsSkipped ==
    [][\A h \in Handles :
        (ret'.h = h /\ ret'.op = "try_receive" /\ connected[h]
           /\ inq[h] # <<>> /\ Head(inq[h]).t = "Msg") =>
            /\ inq'[h] = Tail(inq[h])
            /\ connected'[h]
            /\ UNCHANGED <<loop, exit, outq>>
            /\ Head(inq[h]).data.wf = "badjson" => ret' = Ret(h, "try_receive", "RawRelayMessage", NoEvent)
            /\ Head(inq[h]).data.wf = "badshape" => ret' = Ret(h, "try_receive", "RelayMessage", NoEvent)
            /\ (Head(inq[h]).data.wf = "ok" /\ Head(inq[h]).data.m = "EVENT"
                  /\ Head(inq[h]).data.ev.kind # KindDM)
                 => ret' = Ret(h, "try_receive", "Ok", Head(inq[h]).data.ev)]_vars

\* a rejected text has just been taken, the event received after it is next
C11_Witness ==
    /\ ret = Ret("A", "try_receive", "RawRelayMessage", NoEvent)
    /\ connected["A"] /\ loop["A"] = "Running"
    /\ consumed["A"] = <<1>> /\ recvLog["A"] = <<1, 2>>
    /\ inq["A"] # <<>> /\ Head(inq["A"]).data.m = "EVENT" /\ Head(inq["A"]).data.ev.kind = KindText

SendOps == {"post_event", "send_dm", "subscribe_dm", "subscribe_pool"}

\* C13 as claimed: on a connected handle a publish or subscribe call returns
\* Error::Send and enqueues nothing if the loop has terminated, and otherwise
\* appends its message to the outbound queue and returns Ok.
C13_SendErrorIffClosed ==
    [][\A h \in Handles :
        (ret'.h = h /\ ret'.op \in SendOps /\ connected[h]) =>
            IF ~OutRxOpen(h)
            THEN ret'.res = "Send" /\ UNCHANGED <<outq, connected>>
            ELSE /\ ret'.res = "Ok"
                 /\ Len(outq'[h]) = Len(outq[h]) + 1
                 /\ Last(outq'[h]).t = "Msg"
                 /\ UNCHANGED connected]_vars

\* C13 as amended: on a connected handle, a call that fails to build its
\* message (signing, or for send_dm encrypting) returns that error and
\* enqueues nothing, whatever the state of the queue; subscribe calls never
\* fail so. A call that has built its message returns Error::Send and enqueues
\* nothing exactly when the loop has terminated, and otherwise appends the
\* message and returns Ok. connected is left as it was in every case.
C13_SendErrorIffClosedOnceBuilt ==
    [][\A h \in Handles :
        (ret'.h = h /\ ret'.op \in SendOps /\ connected[h]) =>
            /\ UNCHANGED connected
            /\ ret'.res \in {"Ok", "Send", "SignEvent", "Nip04Encrypt"}
            /\ ret'.res = "Nip04Encrypt" => ret'.op = "send_dm"
            /\ ret'.res = "SignEvent" => ret'.op \in {"send_dm", "post_event"}
            /\ (ret'.res \in {"SignEvent", "Nip04Encrypt"}) = (nextId'[h] = nextId[h])
            /\ ret'.res \in {"SignEvent", "Nip04Encrypt"} => UNCHANGED outq
            /\ nextId'[h] # nextId[h] =>
                 IF ~OutRxOpen(h)
                 THEN ret'.res = "Send" /\ UNCHANGED outq
                 ELSE /\ ret'.res = "Ok"
                      /\ outq'[h] = Append(outq[h], Last(outq'[h]))
                      /\ Last(outq'[h]).t = "Msg"
                      /\ Last(outq'[h]).data.ev.id = nextId'[h]]_vars

\* the watchdog has ended the loop, Close has not been taken, a publish fails
C13_Witness ==
    /\ ret = Ret("A", "post_event", "Send", NoEvent)
    /\ connected["A"] /\ loop["A"] = "Terminated" /\ exit["A"] = "Watchdog"
    /\ outq["A"] = <<>>

\* C14: connect returns Ok exactly when relay and keys are both set, the
\* handshake succeeds and the socket can be made non-blocking, and otherwise
\* ArgMissing, the handshake's error or NonBlocking, in that order. On Ok the
\* handle exists with connected true and its one loop running on empty
\* queues; on an error no handle exists and no loop has been started.
C14_ConnectIffAllSucceed ==
    /\ [](\A relay \in BOOLEAN, keys \in BOOLEAN, nonblocking \in BOOLEAN, handshake \in Handshakes :
            /\ (ConnectResult(relay, keys, handshake, nonblocking) = "Ok")
                 = (relay /\ keys /\ handshake = "ok" /\ nonblocking)
            /\ ~(relay /\ keys) => ConnectResult(relay, keys, handshake, nonblocking) = "ArgMissing"
            /\ (relay /\ keys /\ handshake # "ok")
                 => ConnectResult(relay, keys, handshake, nonblocking) = handshake
            /\ (relay /\ keys /\ handshake = "ok" /\ ~nonblocking)
                 => ConnectResult(relay, keys, handshake, nonblocking) = "NonBlocking")
    /\ [][\A h \in Handles :
            (ret'.h = h /\ ret'.op = "connect") =>
                /\ hstate[h] = "unbuilt" /\ loop[h] = "NotStarted" /\ loopsStarted[h] = 0
                /\ IF ret'.res = "Ok"
                   THEN /\ hstate'[h] = "live" /\ connected'[h]
                        /\ loop'[h] = "Running" /\ loopsStarted'[h] = 1
                        /\ outq'[h] = <<>> /\ inq'[h] = <<>>
                   ELSE /\ ret'.res \in {"ArgMissing", "Parse", "WebSocket", "NonBlocking"}
                        /\ hstate'[h] = "unbuilt" /\ ~connected'[h]
                        /\ loop'[h] = "NotStarted" /\ loopsStarted'[h] = 0]_vars

\* connect has just returned Ok: the handle is built and its loop runs
C14_Witness ==
    /\ ret = Ret("A", "connect", "Ok", NoEvent)
    /\ hstate["A"] = "live" /\ connected["A"]
    /\ loop["A"] = "Running" /\ loopsStarted["A"] = 1

\* C15: the iteration in which the loop reads a close frame enqueues Close and
\* ends the loop; Close is then the last message the inbound queue ever gets.
C15_CloseFrameTerminates ==
    [][\A h \in Handles :
        (loop[h] = "Running" /\ pc[h] = "recv" /\ wire[h] # <<>>
           /\ Head(wire[h]).type = "Close" /\ wire'[h] # wire[h]) =>
            /\ loop'[h] = "Terminated"
            /\ InRxOpen(h) => inq'[h] = Append(inq[h], RecvMsgClose)]_vars

\* C16 as claimed: once stop() has enqueued Stop the loop hands no further
\* text frame to the transport, and its next dequeue step ends it.
C16_StopObservedNext ==
    [][\A h \in Handles :
        stopsEnq[h] = 1 =>
            /\ sent'[h] = sent[h]
            /\ (loop[h] = "Running" /\ pc[h] = "dequeue" /\ pc'[h] # pc[h])
                 => loop'[h] = "Terminated"]_vars

\* C16 as amended: once stop() has enqueued Stop, Stop is the last message of
\* the outbound queue and only messages enqueued before it are ahead of it;
\* each dequeue step of the loop takes the head of the queue: a message ahead
\* of Stop is handed to the transport, and the step that takes Stop ends the
\* loop at once, with nothing sent in that iteration or after it.
C16_StopObservedInTurn ==
    /\ [](\A h \in Handles :
            (stopsEnq[h] = 1 /\ loop[h] = "Running") =>
                /\ outq[h] # <<>> /\ Last(outq[h]).t = "Stop"
                /\ \A i \in 1..(Len(outq[h]) - 1) : outq[h][i].t = "Msg")
    /\ [](\A h \in Handles : exit[h] = "Stop" => (stopsEnq[h] = 1 /\ outq[h] = <<>>))
    /\ [][\A h \in Handles :
            /\ (stopsEnq[h] = 1 /\ loop[h] = "Running" /\ pc[h] = "dequeue"
                  /\ (pc'[h] # pc[h] \/ loop'[h] # loop[h])) =>
                 IF Head(outq[h]).t = "Stop"
                 THEN loop'[h] = "Terminated" /\ exit'[h] = "Stop" /\ sent'[h] = sent[h]
                 ELSE /\ loop'[h] = "Running" /\ outq'[h] = Tail(outq[h])
                      /\ sent'[h] = Append(sent[h], Head(outq[h]).data.ev.id)
            /\ (stopsEnq[h] = 1 /\ loop[h] = "Terminated") => sent'[h] = sent[h]
            /\ (stopsEnq[h] = 1 /\ loop[h] = "Running") => Len(outq'[h]) <= Len(outq[h])]_vars

\* the loop has ended on Stop after sending both messages that were queued
C16_Witness ==
    /\ exit["A"] = "Stop" /\ stopsEnq["A"] = 1 /\ stopped["A"]
    /\ sent["A"] = <<1, 2>>

\* the step is one of listen()'s for handle h
LoopStep(h) == pc'[h] # pc[h] \/ loop'[h] # loop[h]

C18_NoPanic == \A h \in Handles : exit[h] # "Panic"

\* C19: last_pong is the time of the last pong frame the loop processed, or of
\* the loop's start. The loop enqueues Close only when it reads a close frame
\* or, on its own, in a watchdog step taken more than 15 time units after
\* last_pong, which also ends the loop; a watchdog step taken at most 15 time
\* units after last_pong leaves the loop running.
C19_WatchdogOnlyWhenOverdue ==
    /\ [](\A h \in Handles : exit[h] = "Watchdog" => now - last_pong[h] > 15)
    /\ [][\A h \in Handles :
            /\ last_pong'[h] # last_pong[h] =>
                 /\ last_pong'[h] = now
                 /\ \/ loop[h] = "NotStarted"
                    \/ /\ loop[h] = "Running" /\ pc[h] = "recv"
                       /\ wire[h] # <<>> /\ Head(wire[h]).type = "Pong"
            /\ (loop[h] = "Running" /\ pc[h] = "recv" /\ LoopStep(h)
                  /\ wire[h] # <<>> /\ Head(wire[h]).type = "Pong") => last_pong'[h] = now
            /\ inq'[h] = Append(inq[h], RecvMsgClose) =>
                 \/ pc[h] = "recv" /\ wire[h] # <<>> /\ Head(wire[h]).type = "Close"
                 \/ /\ pc[h] = "watchdog" /\ now - last_pong[h] > 15
                    /\ exit'[h] = "Watchdog"
            /\ exit'[h] # exit[h] /\ exit'[h] = "Watchdog" =>
                 pc[h] = "watchdog" /\ now - last_pong[h] > 15
            /\ (loop[h] = "Running" /\ pc[h] = "watchdog" /\ LoopStep(h)
                  /\ now - last_pong[h] <= 15) =>
                 loop'[h] = "Running" /\ inq'[h] = inq[h]]_vars

\* a pong was processed at time 1; the watchdog let the loop run up to time 16
\* and ended it at time 17
C19_Witness ==
    /\ exit["A"] = "Watchdog" /\ last_pong["A"] = 1 /\ now = 17
    /\ inq["A"] # <<>> /\ Last(inq["A"]).t = "Close"

\* C20: the k-th ping a session loop sends carries the one-byte payload
\* k mod 256 (the first 1, the one after 255 carries 0); the loop sends a ping
\* only in its ping step and only when more than PING_INTERVAL = 5 time units
\* have passed since its previous ping, or since it started when it has sent
\* none; sending a ping resets that reference to the present, and nothing
\* else moves it.
C20_PingNonceAndInterval ==
    /\ [](\A h \in Handles :
            /\ \A k \in 1..Len(pingLog[h]) : pingLog[h][k] = k % 256
            /\ ping_nonce[h] = Len(pingLog[h]) % 256)
    /\ [][\A h \in Handles :
            /\ pingLog'[h] # pingLog[h] =>
                  /\ loop[h] = "Running" /\ pc[h] = "ping"
                  /\ now - last_ping[h] > 5
                  /\ Len(pingLog'[h]) = Len(pingLog[h]) + 1
                  /\ SubSeq(pingLog'[h], 1, Len(pingLog[h])) = pingLog[h]
                  /\ last_ping'[h] = now
            /\ (loop[h] = "Running" /\ pc[h] = "ping" /\ LoopStep(h)
                  /\ now - last_ping[h] > 5) => pingLog'[h] # pingLog[h]
            /\ last_ping'[h] # last_ping[h] =>
                  \/ pingLog'[h] # pingLog[h]
                  \/ loop[h] = "NotStarted" /\ loop'[h] = "Running" /\ last_ping'[h] = now
         ]_vars

\* the loop of A has sent 257 pings: the 255th carries 255, the 256th carries 0
\* and the 257th carries 1
C20_Witness ==
    /\ Len(pingLog["A"]) = 257
    /\ pingLog["A"][1] = 1
    /\ pingLog["A"][255] = 255
    /\ pingLog["A"][256] = 0
    /\ pingLog["A"][257] = 1

============================================================================
